---- MODULE Spec2Model ----
(***************************************************************************)
(* Model of app.py, the Streamlit script of the Spotify behaviour-based    *)
(* playlist recommender.  One run of the script (one request) is a         *)
(* sequence of steps; pc is the position in the script.                    *)
(*                                                                         *)
(* Python strings whose characters the code inspects (in, lower, split,    *)
(* strip) are sequences of one-character strings.  Playlist labels and     *)
(* cluster ids are only compared as wholes and are TLA+ strings; the       *)
(* emoji that prefixes each label in the source is left out.               *)
(***************************************************************************)
EXTENDS Integers, Sequences, FiniteSets, TLC

VARIABLES pc, cluster_profiles, time_slot, mood, genre, podcast_freq, gender,
          rec, keys, shown, clust, sc, premium_model,
          user_mood, user_time, user_genre, user_podcast, user_gender,
          fv, result, out, raised

vars == <<pc, cluster_profiles, time_slot, mood, genre, podcast_freq, gender,
          rec, keys, shown, clust, sc, premium_model,
          user_mood, user_time, user_genre, user_podcast, user_gender,
          fv, result, out, raised>>

(***************************************************************************)
(* Bounds of the model.                                                    *)
(***************************************************************************)
MaxGenreLen == 3
MaxClusters == 2

(***************************************************************************)
(* Python str operations.                                                  *)
(***************************************************************************)
UpperChars == <<"A","B","C","D","E","F","G","H","I","J","K","L","M",
                "N","O","P","Q","R","S","T","U","V","W","X","Y","Z">>
LowerChars == <<"a","b","c","d","e","f","g","h","i","j","k","l","m",
                "n","o","p","q","r","s","t","u","v","w","x","y","z">>

LowerChar(c) ==
    IF \E i \in 1..26 : UpperChars[i] = c
    THEN LowerChars[CHOOSE i \in 1..26 : UpperChars[i] = c]
    ELSE c

\* s.lower()
Lower(s) == [i \in 1..Len(s) |-> LowerChar(s[i])]

\* sub in s
Contains(s, sub) ==
    \E i \in 1..(Len(s) - Len(sub) + 1) : SubSeq(s, i, i + Len(sub) - 1) = sub

\* s.strip()
Strip(s) ==
    LET nonblank == {i \in 1..Len(s) : s[i] # " "}
    IN  IF nonblank = {} THEN <<>>
        ELSE LET lo == CHOOSE i \in nonblank : \A j \in nonblank : i <= j
                 hi == CHOOSE i \in nonblank : \A j \in nonblank : i >= j
             IN  SubSeq(s, lo, hi)

\* s.split(','): the pieces between the commas, in order
RECURSIVE SplitFrom(_, _)
SplitFrom(s, start) ==
    LET commas == {i \in start..Len(s) : s[i] = ","}
    IN  IF commas = {} THEN <<SubSeq(s, start, Len(s))>>
        ELSE LET c == CHOOSE i \in commas : \A j \in commas : i <= j
             IN  <<SubSeq(s, start, c - 1)>> \o SplitFrom(s, c + 1)

Split(s) == SplitFrom(s, 1)

\* seq[:n]
Take(s, n) == SubSeq(s, 1, IF Len(s) < n THEN Len(s) ELSE n)

Range(s) == {s[i] : i \in 1..Len(s)}

(***************************************************************************)
(* The rule table and recommend_playlist.                                  *)
(***************************************************************************)
playlist_rules == <<
    [t_slots |-> <<<<"M","o","r","n","i","n","g">>, <<"E","a","r","l","y"," ","M","o","r","n","i","n","g">>>>,
     moods   |-> <<<<"E","n","e","r","g","e","t","i","c">>, <<"U","p","b","e","a","t">>>>,
     genres  |-> <<<<"P","o","p">>, <<"E","D","M">>, <<"D","a","n","c","e">>>>,
     playlist |-> "Morning Workout Mix"],
    [t_slots |-> <<<<"M","o","r","n","i","n","g">>>>,
     moods   |-> <<<<"C","a","l","m">>, <<"F","o","c","u","s","e","d">>>>,
     genres  |-> <<<<"C","l","a","s","s","i","c","a","l">>, <<"A","m","b","i","e","n","t">>>>,
     playlist |-> "Focused Morning"],
    [t_slots |-> <<<<"A","f","t","e","r","n","o","o","n">>>>,
     moods   |-> <<<<"R","e","l","a","x","e","d">>, <<"C","h","i","l","l">>>>,
     genres  |-> <<<<"L","o","-","f","i">>, <<"I","n","d","i","e">>>>,
     playlist |-> "Afternoon Chill"],
    [t_slots |-> <<<<"E","v","e","n","i","n","g">>, <<"N","i","g","h","t">>>>,
     moods   |-> <<<<"S","a","d","n","e","s","s"," ","o","r"," ","m","e","l","a","n","c","h","o","l","y">>, <<"M","e","l","a","n","c","h","o","l","i","c">>, <<"R","e","f","l","e","c","t","i","v","e">>>>,
     genres  |-> <<<<"A","c","o","u","s","t","i","c">>, <<"F","o","l","k">>>>,
     playlist |-> "Evening Reflective"],
    [t_slots |-> <<<<"N","i","g","h","t">>>>,
     moods   |-> <<<<"E","x","c","i","t","e","d">>, <<"U","p","b","e","a","t">>>>,
     genres  |-> <<<<"H","i","p"," ","H","o","p">>, <<"R","a","p">>, <<"P","o","p">>>>,
     playlist |-> "Night Out Vibes"],
    [t_slots |-> <<<<"A","n","y">>>>,
     moods   |-> <<<<"A","n","y">>>>,
     genres  |-> <<<<"P","o","d","c","a","s","t">>>>,
     playlist |-> "Popular Podcasts"] >>

\* the condition of line 39
RuleSlotMoodMatch(r, ts, m) ==
    /\ (ts \in Range(r.t_slots) \/ <<"A","n","y">> \in Range(r.t_slots))
    /\ (m \in Range(r.moods) \/ <<"A","n","y">> \in Range(r.moods))

\* line 41 read with "or" binding tighter than "and"
RuleGenreMatch_OrBindsTighter(r, g) ==
    /\ \/ \E k \in Range(r.genres) : Contains(Lower(g), Lower(k))
       \/ <<"P","o","d","c","a","s","t">> \in Range(r.genres)
    /\ Contains(Lower(g), <<"p","o","d">>)

\* the condition of line 41; Python's "and" binds tighter than "or"
RuleGenreMatch(r, g) ==
    \/ \E k \in Range(r.genres) : Contains(Lower(g), Lower(k))
    \/ (<<"P","o","d","c","a","s","t">> \in Range(r.genres) /\ Contains(Lower(g), <<"p","o","d">>))

\* the fallback without its final return: the function returns None
FallbackPlaylist_NoDefault(genreText) ==
    LET g == Lower(genreText)
    IN  IF Contains(g, <<"w","o","r","k","o","u","t">>) \/ Contains(g, <<"u","p","b","e","a","t">>) \/ Contains(g, <<"e","n","e","r","g","e","t","i","c">>)
        THEN "High Energy Workout"
        ELSE IF Contains(g, <<"l","o","-","f","i">>) \/ Contains(g, <<"c","h","i","l","l">>) \/ Contains(g, <<"i","n","d","i","e">>)
        THEN "Lo-fi & Chill"
        ELSE IF Contains(g, <<"p","o","d","c","a","s","t">>) \/ Contains(g, <<"t","a","l","k">>)
        THEN "Podcast Highlights"
        ELSE "None"

\* the fallback with the lo-fi group tested before the workout group
FallbackPlaylist_ChillFirst(genreText) ==
    LET g == Lower(genreText)
    IN  IF Contains(g, <<"l","o","-","f","i">>) \/ Contains(g, <<"c","h","i","l","l">>) \/ Contains(g, <<"i","n","d","i","e">>)
        THEN "Lo-fi & Chill"
        ELSE IF Contains(g, <<"w","o","r","k","o","u","t">>) \/ Contains(g, <<"u","p","b","e","a","t">>) \/ Contains(g, <<"e","n","e","r","g","e","t","i","c">>)
        THEN "High Energy Workout"
        ELSE IF Contains(g, <<"p","o","d","c","a","s","t">>) \/ Contains(g, <<"t","a","l","k">>)
        THEN "Podcast Highlights"
        ELSE "Popular Hits"

\* the fallback with a "pop" keyword in its last group
FallbackPlaylist_PopKeyword(genreText) ==
    LET g == Lower(genreText)
    IN  IF Contains(g, <<"w","o","r","k","o","u","t">>) \/ Contains(g, <<"u","p","b","e","a","t">>) \/ Contains(g, <<"e","n","e","r","g","e","t","i","c">>)
        THEN "High Energy Workout"
        ELSE IF Contains(g, <<"l","o","-","f","i">>) \/ Contains(g, <<"c","h","i","l","l">>) \/ Contains(g, <<"i","n","d","i","e">>)
        THEN "Lo-fi & Chill"
        ELSE IF Contains(g, <<"p","o","d","c","a","s","t">>) \/ Contains(g, <<"t","a","l","k">>) \/ Contains(g, <<"p","o","p">>)
        THEN "Podcast Highlights"
        ELSE "Popular Hits"

\* the fallback by genre keywords, lines 44-52
FallbackPlaylist(genreText) ==
    LET g == Lower(genreText)
    IN  IF Contains(g, <<"w","o","r","k","o","u","t">>) \/ Contains(g, <<"u","p","b","e","a","t">>) \/ Contains(g, <<"e","n","e","r","g","e","t","i","c">>)
        THEN "High Energy Workout"
        ELSE IF Contains(g, <<"l","o","-","f","i">>) \/ Contains(g, <<"c","h","i","l","l">>) \/ Contains(g, <<"i","n","d","i","e">>)
        THEN "Lo-fi & Chill"
        ELSE IF Contains(g, <<"p","o","d","c","a","s","t">>) \/ Contains(g, <<"t","a","l","k">>)
        THEN "Podcast Highlights"
        ELSE "Popular Hits"

\* the for loop of lines 38-42 from rule i on, then the fallback
RECURSIVE RecommendFrom(_, _, _, _)
RecommendFrom(i, ts, m, g) ==
    IF i > Len(playlist_rules) THEN FallbackPlaylist(g)
    ELSE IF RuleSlotMoodMatch(playlist_rules[i], ts, m)
            /\ RuleGenreMatch(playlist_rules[i], g)
         THEN playlist_rules[i].playlist
         ELSE RecommendFrom(i + 1, ts, m, g)

recommend_playlist(ts, m, g) == RecommendFrom(1, ts, m, g)

(***************************************************************************)
(* Cluster profiles.  A table is the loaded JSON object: a sequence of     *)
(* (k, feats) pairs in iteration order with distinct keys.  A profile      *)
(* value is a JSON value: a list of feature names, an object whose keys    *)
(* are feature names (items holds the keys in order, the weights are never *)
(* read), a string (items holds the one text), a number, or null.          *)
(***************************************************************************)
ListProfile(names) == [kind |-> "list", items |-> names, num |-> 0]
DictProfile(names) == [kind |-> "dict", items |-> names, num |-> 0]
StrProfile(text)   == [kind |-> "str", items |-> <<text>>, num |-> 0]
NumProfile(n)      == [kind |-> "num", items |-> <<>>, num |-> n]
NullProfile        == [kind |-> "null", items |-> <<>>, num |-> 0]

\* Python's None as a cluster id; no key of a table is this string
None == "None"

\* user_tokens, lines 107-109
UserTokens(ts, m, g) ==
    {Lower(ts), Lower(m)} \cup {Lower(Strip(piece)) : piece \in Range(Split(g))}

\* feats is iterated if it is a list, else feats.keys() is called (line 113)
HasFeatureNames(feats) == feats.kind \in {"list", "dict"}

\* feat_tokens, line 113
FeatTokens(feats) == {Lower(f) : f \in Range(feats.items)}

\* line 115 with >= : a later cluster replaces an equal earlier one
ScoreBeats_OrEqual(score, best_score) == score >= best_score

\* the comparison of line 115
ScoreBeats(score, best_score) == score > best_score

\* the for loop of lines 111-117 from item i on, then the return of line 118
RECURSIVE MapFrom(_, _, _, _, _)
MapFrom(i, table, tokens, best_k, best_score) ==
    IF i > Len(table)
    THEN [k |-> best_k, score |-> best_score, exc |-> "none"]
    ELSE IF ~HasFeatureNames(table[i].feats)
    THEN [k |-> best_k, score |-> best_score, exc |-> "AttributeError"]
    ELSE LET score == Cardinality(tokens \cap FeatTokens(table[i].feats))
         IN  IF ScoreBeats(score, best_score)
             THEN MapFrom(i + 1, table, tokens, table[i].k, score)
             ELSE MapFrom(i + 1, table, tokens, best_k, best_score)

map_input_to_cluster(ts, m, g, table) ==
    MapFrom(1, table, UserTokens(ts, m, g), None, -1)

\* cluster_profiles.get(k)
Get(table, k) ==
    IF \E i \in 1..Len(table) : table[i].k = k
    THEN table[CHOOSE i \in 1..Len(table) : table[i].k = k].feats
    ELSE NullProfile

\* Python truthiness of a JSON value
Truthy(feats) ==
    CASE feats.kind \in {"list", "dict"} -> feats.items # <<>>
      [] feats.kind = "str" -> feats.items[1] # <<>>
      [] feats.kind = "num" -> feats.num # 0
      [] OTHER -> FALSE

(***************************************************************************)
(* The feature vector of lines 186-206 and the scoring of lines 211-221.   *)
(***************************************************************************)
Bit(b) == IF b THEN 1 ELSE 0

FeatureVector(um, ut, ug, up, uge) ==
    LET m  == Lower(um)
        t  == Lower(ut)
        g  == Lower(ug)
        p  == Lower(up)
        ge == Lower(uge)
    IN  << Bit(\E token \in {<<"e","n","e","r","g","e","t","i","c">>, <<"u","p","b","e","a","t">>, <<"h","a","p","p","y">>, <<"p","a","r","t","y">>} :
                   Contains(m, token)),
           Bit(Contains(t, <<"m","o","r","n","i","n","g">>)),
           Bit(Contains(g, <<"p","o","p">>)),
           Bit(Contains(p, <<"d","a","i","l","y">>)),
           Bit(Contains(ge, <<"f","e","m","a","l","e">>)) >>

\* A classifier: each capability is absent, raises when called, or answers.
\* row is the predict_proba output for the one sample, in thousandths.
Classifier(proba, predict) ==
    [loaded |-> TRUE, proba |-> proba, predict |-> predict,
     row |-> <<250, 750>>, cls |-> 1]
NoModel ==
    [loaded |-> FALSE, proba |-> "absent", predict |-> "absent",
     row |-> <<0, 0>>, cls |-> 0]

NoResult == [kind |-> "none", value |-> 0, called |-> {}]

\* the probability of class 0 taken instead
PositiveClass_Index0(row) == row[1]

\* predict_proba(feature_vector)[0][1]
PositiveClass(row) == row[2]

\* the try/except of lines 211-221
Score(model) ==
    IF model.proba # "absent"
    THEN IF model.proba = "ok"
         THEN [kind |-> "probability", value |-> PositiveClass(model.row),
               called |-> {"predict_proba"}]
         ELSE [kind |-> "unavailable", value |-> 0, called |-> {"predict_proba"}]
    ELSE IF model.predict = "ok"
         THEN [kind |-> "class", value |-> model.cls, called |-> {"predict"}]
         ELSE IF model.predict = "raises"
         THEN [kind |-> "unavailable", value |-> 0, called |-> {"predict"}]
         ELSE [kind |-> "unavailable", value |-> 0, called |-> {}]

(***************************************************************************)
(* The sidebar widgets and the artifacts a request can find.               *)
(***************************************************************************)
GenderOptions == {<<"F","e","m","a","l","e">>, <<"M","a","l","e">>, <<"O","t","h","e","r">>, <<"P","r","e","f","e","r"," ","n","o","t"," ","t","o"," ","s","a","y">>}
TimeSlotOptions == {<<"M","o","r","n","i","n","g">>, <<"E","a","r","l","y"," ","M","o","r","n","i","n","g">>, <<"A","f","t","e","r","n","o","o","n">>, <<"E","v","e","n","i","n","g">>, <<"N","i","g","h","t">>}
MoodOptions == {<<"U","p","b","e","a","t">>, <<"E","n","e","r","g","e","t","i","c">>, <<"R","e","l","a","x","e","d">>, <<"C","a","l","m">>,
                <<"S","a","d","n","e","s","s"," ","o","r"," ","m","e","l","a","n","c","h","o","l","y">>, <<"R","e","f","l","e","c","t","i","v","e">>, <<"E","x","c","i","t","e","d">>, <<"A","n","y">>}
PodcastOptions == {<<"N","e","v","e","r">>, <<"M","o","n","t","h","l","y">>, <<"W","e","e","k","l","y">>, <<"D","a","i","l","y">>}
\* texts typed into the genre field; the first is the widget's default
GenreInputs == {<<"P","o","p",","," ","M","e","l","o","d","y">>, <<"P","o","p">>, <<"K","-","p","o","p">>, <<>>}

\* contents of artifacts/cluster_profiles.json
RequestTables == {
    << [k |-> "0", feats |-> ListProfile(<<<<"m","o","r","n","i","n","g">>, <<"p","o","p">>, <<"e","n","e","r","g","e","t","i","c">>>>)],
       [k |-> "1", feats |-> ListProfile(<<<<"n","i","g","h","t">>, <<"r","a","p">>>>)] >>,
    << [k |-> "0", feats |-> DictProfile(<<<<"m","o","r","n","i","n","g">>, <<"p","o","p">>>>)],
       [k |-> "1", feats |-> DictProfile(<<<<"n","i","g","h","t">>>>)] >>,
    << [k |-> "1", feats |-> ListProfile(<<<<"C","l","a","s","s","i","c","a","l">>>>)],
       [k |-> "0", feats |-> DictProfile(<<<<"e","v","e","n","i","n","g">>>>)] >>,
    << [k |-> "a", feats |-> ListProfile(<<<<"c","a","l","m">>>>)],
       [k |-> "b", feats |-> ListProfile(<<>>)] >>,
    << [k |-> "0", feats |-> ListProfile(<<<<"p","o","p">>>>)],
       [k |-> "1", feats |-> StrProfile(<<"p","o","p">>)] >>,
    << [k |-> "0", feats |-> NumProfile(5)],
       [k |-> "1", feats |-> ListProfile(<<<<"p","o","p">>>>)] >>,
    << [k |-> "0", feats |-> NullProfile],
       [k |-> "1", feats |-> ListProfile(<<<<"p","o","p">>>>)] >> }

\* what joblib.load can return
Classifiers ==
    {Classifier(pp, pr) : pp \in {"absent", "raises", "ok"},
                          pr \in {"absent", "raises", "ok"}}

\* int(k) succeeds
IsIntKey(k) == k \in {"0", "1", "2", "3"}
IntOf(k) == CASE k = "0" -> 0 [] k = "1" -> 1 [] k = "2" -> 2 [] OTHER -> 3

TableKeys(table) == [i \in 1..Len(table) |-> table[i].k]

\* lines 78-81: sorted by int(k), or the iteration order if some key is no int
DisplayKeys(table) ==
    LET ks == TableKeys(table)
    IN  IF \A k \in Range(ks) : IsIntKey(k)
        THEN CHOOSE s \in [1..Len(ks) -> Range(ks)] :
                 /\ Range(s) = Range(ks)
                 /\ \A i, j \in 1..Len(ks) : i < j => IntOf(s[i]) < IntOf(s[j])
        ELSE ks

\* lines 86-91 for one key: the feats_list shown, or the exception raised
FeatsList(table, k) ==
    LET got == Get(table, k)
        feats == IF Truthy(got) THEN got ELSE ListProfile(<<>>)
    IN  CASE feats.kind \in {"list", "dict"} ->
               [exc |-> "none", list |-> Take(feats.items, 10)]
          [] feats.kind = "str" ->
               [exc |-> "none",
                list |-> [i \in 1..Len(Take(feats.items[1], 10)) |-> <<feats.items[1][i]>>]]
          [] OTHER -> [exc |-> "TypeError", list |-> <<>>]

(***************************************************************************)
(* One run of the script.                                                  *)
(***************************************************************************)
Init ==
    /\ pc = "load_profiles"
    /\ cluster_profiles = <<>>
    /\ time_slot = <<>> /\ mood = <<>> /\ genre = <<>>
    /\ podcast_freq = <<>> /\ gender = <<>>
    /\ rec = ""
    /\ keys = <<>> /\ shown = <<>>
    /\ clust = "unbound" /\ sc = -1
    /\ premium_model = NoModel
    /\ user_mood = <<>> /\ user_time = <<>> /\ user_genre = <<>>
    /\ user_podcast = <<>> /\ user_gender = <<>>
    /\ fv = <<>>
    /\ result = NoResult
    /\ out = {}
    /\ raised = "none"

\* lines 15-22: the file is missing or unreadable, or its table is loaded
LoadProfiles ==
    /\ pc = "load_profiles"
    /\ \/ /\ cluster_profiles' = <<>>
          /\ out' \in {out, out \cup {"could_not_load_profiles"}}
       \/ /\ cluster_profiles' \in RequestTables
          /\ out' = out
    /\ pc' = "sidebar"
    /\ UNCHANGED <<time_slot, mood, genre, podcast_freq, gender, rec, keys, shown,
                   clust, sc, premium_model, user_mood, user_time, user_genre,
                   user_podcast, user_gender, fv, result, raised>>

\* lines 55-64
Sidebar ==
    /\ pc = "sidebar"
    /\ gender' \in GenderOptions
    /\ time_slot' \in TimeSlotOptions
    /\ mood' \in MoodOptions
    /\ genre' \in GenreInputs
    /\ podcast_freq' \in PodcastOptions
    /\ pc' = "recommend"
    /\ UNCHANGED <<cluster_profiles, rec, keys, shown, clust, sc, premium_model,
                   user_mood, user_time, user_genre, user_podcast, user_gender,
                   fv, result, out, raised>>

\* lines 67-71
Recommend ==
    /\ pc = "recommend"
    /\ rec' = recommend_playlist(time_slot, mood, genre)
    /\ out' = out \cup {"recommended"}
    /\ pc' = "profiles"
    /\ UNCHANGED <<cluster_profiles, time_slot, mood, genre, podcast_freq, gender,
                   keys, shown, clust, sc, premium_model, user_mood, user_time,
                   user_genre, user_podcast, user_gender, fv, result, raised>>

\* the columns written before the first key whose feats_list raises
RECURSIVE ShowFrom(_, _, _)
ShowFrom(i, table, ks) ==
    IF i > Len(ks) THEN [exc |-> "none", shown |-> <<>>]
    ELSE LET fl == FeatsList(table, ks[i])
         IN  IF fl.exc # "none" THEN [exc |-> fl.exc, shown |-> <<>>]
             ELSE LET rest == ShowFrom(i + 1, table, ks)
                  IN  [exc |-> rest.exc,
                       shown |-> <<[k |-> ks[i], list |-> fl.list]>> \o rest.shown]

\* lines 74-98
ShowProfiles ==
    /\ pc = "profiles"
    /\ IF cluster_profiles # <<>>
       THEN LET ks == DisplayKeys(cluster_profiles)
                r  == ShowFrom(1, cluster_profiles, ks)
            IN  /\ keys' = ks
                /\ shown' = r.shown
                /\ raised' = r.exc
                /\ pc' = IF r.exc = "none" THEN "map" ELSE "crashed"
                /\ out' = out \cup {"cluster_profiles"}
       ELSE /\ out' = out \cup {"no_profiles_info"}
            /\ pc' = "map"
            /\ UNCHANGED <<keys, shown, raised>>
    /\ UNCHANGED <<cluster_profiles, time_slot, mood, genre, podcast_freq, gender,
                   rec, clust, sc, premium_model, user_mood, user_time, user_genre,
                   user_podcast, user_gender, fv, result>>

\* lines 121-124
MapCluster ==
    /\ pc = "map"
    /\ IF cluster_profiles # <<>>
       THEN LET r == map_input_to_cluster(time_slot, mood, genre, cluster_profiles)
            IN  IF r.exc # "none"
                THEN /\ raised' = r.exc
                     /\ pc' = "crashed"
                     /\ UNCHANGED <<clust, sc, out>>
                ELSE /\ clust' = r.k
                     /\ sc' = r.score
                     /\ out' = IF r.k # None /\ r.score > 0
                               THEN out \cup {"maps_to_cluster"} ELSE out
                     /\ pc' = "rationale"
                     /\ UNCHANGED raised
       ELSE /\ pc' = "rationale"
            /\ UNCHANGED <<clust, sc, out, raised>>
    /\ UNCHANGED <<cluster_profiles, time_slot, mood, genre, podcast_freq, gender,
                   rec, keys, shown, premium_model, user_mood, user_time,
                   user_genre, user_podcast, user_gender, fv, result>>

\* the test of line 128
RationaleNamesCluster == cluster_profiles # <<>> /\ clust \notin {None, ""}

\* lines 126-129; slicing a dict raises TypeError, KeyError from Python 3.12 on
Rationale ==
    /\ pc = "rationale"
    /\ IF RationaleNamesCluster
       THEN IF Get(cluster_profiles, clust).kind \in {"list", "str"}
            THEN /\ out' = out \cup {"matched_rule", "cluster_rationale"}
                 /\ pc' = "load_model"
                 /\ UNCHANGED raised
            ELSE /\ out' = out \cup {"matched_rule"}
                 /\ raised' \in {"TypeError", "KeyError"}
                 /\ pc' = "crashed"
       ELSE /\ out' = out \cup {"matched_rule"}
            /\ pc' = "load_model"
            /\ UNCHANGED raised
    /\ UNCHANGED <<cluster_profiles, time_slot, mood, genre, podcast_freq, gender,
                   rec, keys, shown, clust, sc, premium_model, user_mood, user_time,
                   user_genre, user_podcast, user_gender, fv, result>>

\* lines 134-153: joblib missing, the load fails, or a classifier is loaded
LoadModel ==
    /\ pc = "load_model"
    /\ \/ /\ premium_model' = NoModel
          /\ out' \in {out \cup {"joblib_not_installed"}, out \cup {"model_not_found"}}
       \/ /\ premium_model' \in Classifiers
          /\ out' = out
    /\ pc' = "bind"
    /\ UNCHANGED <<cluster_profiles, time_slot, mood, genre, podcast_freq, gender,
                   rec, keys, shown, clust, sc, user_mood, user_time, user_genre,
                   user_podcast, user_gender, fv, result, raised>>

\* lines 157-180; the script binds no name "time", so line 163 raises
\* NameError and line 165 runs
BindUserVars ==
    /\ pc = "bind"
    /\ user_mood' = mood
    /\ user_time' = <<"A","n","y">>
    /\ user_genre' = genre
    /\ user_podcast' = podcast_freq
    /\ user_gender' = gender
    /\ pc' = "premium"
    /\ UNCHANGED <<cluster_profiles, time_slot, mood, genre, podcast_freq, gender,
                   rec, keys, shown, clust, sc, premium_model, fv, result, out,
                   raised>>

\* lines 182-221
Premium ==
    /\ pc = "premium"
    /\ IF ~premium_model.loaded
       THEN /\ out' = out \cup {"premium_unavailable"}
            /\ UNCHANGED <<fv, result>>
       ELSE LET r == Score(premium_model)
            IN  /\ fv' = FeatureVector(user_mood, user_time, user_genre,
                                       user_podcast, user_gender)
                /\ result' = r
                /\ out' = out \cup
                      {CASE r.kind = "probability" -> "premium_likelihood"
                         [] r.kind = "class" -> "model_prediction"
                         [] OTHER -> "could_not_score"}
    /\ pc' = "done"
    /\ UNCHANGED <<cluster_profiles, time_slot, mood, genre, podcast_freq, gender,
                   rec, keys, shown, clust, sc, premium_model, user_mood, user_time,
                   user_genre, user_podcast, user_gender, raised>>

Next ==
    \/ LoadProfiles
    \/ Sidebar
    \/ Recommend
    \/ ShowProfiles
    \/ MapCluster
    \/ Rationale
    \/ LoadModel
    \/ BindUserVars
    \/ Premium

Spec == Init /\ [][Next]_vars

(***************************************************************************)
(* recommend_playlist called on its own, on arguments inside and outside   *)
(* the widgets' options.                                                    *)
(***************************************************************************)
StringsUpTo(alphabet, n) == UNION {[1..len -> alphabet] : len \in 0..n}

TimeSlotArgs == TimeSlotOptions \cup {<<"A","n","y">>, <<>>, <<"m","o","r","n","i","n","g">>}
MoodArgs == MoodOptions \cup {<<"F","o","c","u","s","e","d">>, <<"C","h","i","l","l">>, <<"M","e","l","a","n","c","h","o","l","i","c">>, <<>>}
GenreArgs ==
    {<<"P","o","p",","," ","E","D","M">>, <<"R","a","p">>, <<"j","a","z","z">>, <<"K","-","p","o","p">>, <<>>, <<"P","o","p",","," ","P","o","d","c","a","s","t">>,
     <<"c","h","i","l","l"," ","w","o","r","k","o","u","t">>, <<"c","h","i","l","l","o","u","t">>, <<"t","a","l","k"," ","r","a","d","i","o">>, <<"L","o","-","f","i",","," ","I","n","d","i","e">>,
     <<"C","L","A","S","S","I","C","A","L">>, <<"a","c","o","u","s","t","i","c"," ","f","o","l","k">>, <<"p","o","d","c","a","s","t">>, <<"I","n","d","i","e"," ","t","a","l","k">>, <<"h","i","p"," ","h","o","p">>,
     <<"u","p","b","e","a","t"," ","p","o","d","c","a","s","t">>, <<"A","m","b","i","e","n","t">>}
    \cup StringsUpTo({"p", "o", "d", "P"}, MaxGenreLen)

InitRec ==
    /\ pc = "call_recommend"
    /\ time_slot \in TimeSlotArgs
    /\ mood \in MoodArgs
    /\ genre \in GenreArgs
    /\ cluster_profiles = <<>>
    /\ podcast_freq = <<>> /\ gender = <<>>
    /\ rec = ""
    /\ keys = <<>> /\ shown = <<>>
    /\ clust = "unbound" /\ sc = -1
    /\ premium_model = NoModel
    /\ user_mood = <<>> /\ user_time = <<>> /\ user_genre = <<>>
    /\ user_podcast = <<>> /\ user_gender = <<>>
    /\ fv = <<>>
    /\ result = NoResult
    /\ out = {}
    /\ raised = "none"

CallRecommend ==
    /\ pc = "call_recommend"
    /\ rec' = recommend_playlist(time_slot, mood, genre)
    /\ pc' = "returned"
    /\ UNCHANGED <<cluster_profiles, time_slot, mood, genre, podcast_freq, gender,
                   keys, shown, clust, sc, premium_model, user_mood, user_time,
                   user_genre, user_podcast, user_gender, fv, result, out, raised>>

SpecRec == InitRec /\ [][CallRecommend]_vars

(***************************************************************************)
(* map_input_to_cluster called on its own, on tables of up to MaxClusters  *)
(* clusters, the empty table included.                                     *)
(***************************************************************************)
ProfileArgs ==
    {ListProfile(<<<<"M","o","r","n","i","n","g">>, <<"P","o","p">>>>),
     ListProfile(<<<<"p","o","p">>>>),
     DictProfile(<<<<"n","i","g","h","t">>, <<"r","a","p">>, <<"c","a","l","m">>>>),
     ListProfile(<<>>),
     ListProfile(<<<<"p","o","p","u","l","a","r">>, <<" ","p","o","p">>>>),
     DictProfile(<<<<"P","O","P">>, <<"R","a","p">>>>),
     StrProfile(<<"p","o","p">>),
     NumProfile(5),
     NullProfile}

ClusterIds == <<"0", "1", "2", "3", "4", "5">>

\* the tables of n clusters, their ids in ascending or in descending order
TablesOf(n) ==
    {[i \in 1..n |-> [k |-> ClusterIds[i], feats |-> ps[i]]] : ps \in [1..n -> ProfileArgs]}
    \cup
    {[i \in 1..n |-> [k |-> ClusterIds[n + 1 - i], feats |-> ps[i]]] : ps \in [1..n -> ProfileArgs]}

TableArgs == UNION {TablesOf(n) : n \in 0..MaxClusters}

MapTimeSlotArgs == {<<"M","o","r","n","i","n","g">>, <<"N","i","g","h","t">>}
MapMoodArgs == {<<"C","a","l","m">>, <<"A","n","y">>}
MapGenreArgs == {<<"P","o","p",","," ","R","a","p">>, <<>>, <<"p","o","p",",","p","o","p">>, <<" ","P","O","P"," ",",","r","a","p">>, <<"K","-","p","o","p">>, <<"p","o","p","u","l","a","r">>}

InitMap ==
    /\ pc = "call_map"
    /\ time_slot \in MapTimeSlotArgs
    /\ mood \in MapMoodArgs
    /\ genre \in MapGenreArgs
    /\ cluster_profiles \in TableArgs
    /\ podcast_freq = <<>> /\ gender = <<>>
    /\ rec = ""
    /\ keys = <<>> /\ shown = <<>>
    /\ clust = "unbound" /\ sc = -1
    /\ premium_model = NoModel
    /\ user_mood = <<>> /\ user_time = <<>> /\ user_genre = <<>>
    /\ user_podcast = <<>> /\ user_gender = <<>>
    /\ fv = <<>>
    /\ result = NoResult
    /\ out = {}
    /\ raised = "none"

CallMap ==
    /\ pc = "call_map"
    /\ LET r == map_input_to_cluster(time_slot, mood, genre, cluster_profiles)
       IN  IF r.exc # "none"
           THEN /\ raised' = r.exc
                /\ pc' = "raised"
                /\ UNCHANGED <<clust, sc>>
           ELSE /\ clust' = r.k
                /\ sc' = r.score
                /\ pc' = "returned"
                /\ UNCHANGED raised
    /\ UNCHANGED <<cluster_profiles, time_slot, mood, genre, podcast_freq, gender,
                   rec, keys, shown, premium_model, user_mood, user_time,
                   user_genre, user_podcast, user_gender, fv, result, out>>

SpecMap == InitMap /\ [][CallMap]_vars

(***************************************************************************)
(* Properties of recommend_playlist, checked under SpecRec.                *)
(***************************************************************************)
RuleLabels == {"Morning Workout Mix", "Focused Morning", "Afternoon Chill",
               "Evening Reflective", "Night Out Vibes", "Popular Podcasts"}
KeywordLabels == {"High Energy Workout", "Lo-fi & Chill", "Podcast Highlights"}
DefaultLabel == "Popular Hits"

\* rule i is a candidate for the call's arguments
Candidate(i) ==
    LET r == playlist_rules[i]
        g == Lower(genre)
    IN  /\ \E t \in Range(r.t_slots) : t = time_slot \/ t = <<"A","n","y">>
        /\ \E m \in Range(r.moods) : m = mood \/ m = <<"A","n","y">>
        /\ \/ \E kw \in Range(r.genres) : Contains(g, Lower(kw))
           \/ ((\E kw \in Range(r.genres) : kw = <<"P","o","d","c","a","s","t">>) /\ Contains(g, <<"p","o","d">>))

Candidates == {i \in 1..Len(playlist_rules) : Candidate(i)}

\* C1: every call of recommend_playlist returns, without raising, a
\* non-empty label that is a rule label, a keyword-fallback label or the
\* default label.
C1_LabelAlwaysReturned ==
    /\ pc = "call_recommend" => ENABLED CallRecommend
    /\ pc = "returned" =>
          /\ raised = "none"
          /\ rec # ""
          /\ rec \in RuleLabels \cup KeywordLabels \cup {DefaultLabel}

C1_Witness ==
    /\ pc = "returned"
    /\ time_slot \notin TimeSlotOptions
    /\ mood \notin MoodOptions
    /\ genre = <<>>
    /\ rec = DefaultLabel

\* C2: when some rule is a candidate the result is the label of the
\* lowest-index candidate; Morning/Energetic/"Pop, EDM" gives Morning
\* Workout Mix and Night/Excited/"Rap" gives Night Out Vibes.
C2_FirstMatchWins ==
    pc = "returned" =>
       /\ Candidates # {} =>
             \E i \in Candidates :
                 /\ \A j \in Candidates : i <= j
                 /\ rec = playlist_rules[i].playlist
       /\ (time_slot = <<"M","o","r","n","i","n","g">> /\ mood = <<"E","n","e","r","g","e","t","i","c">> /\ genre = <<"P","o","p",","," ","E","D","M">>)
             => rec = "Morning Workout Mix"
       /\ (time_slot = <<"N","i","g","h","t">> /\ mood = <<"E","x","c","i","t","e","d">> /\ genre = <<"R","a","p">>)
             => rec = "Night Out Vibes"

C2_Witness ==
    /\ pc = "returned"
    /\ Cardinality(Candidates) >= 2
    /\ rec = "Night Out Vibes"

\* C3: when no rule is a candidate the result is decided by the keyword
\* groups in their fixed order, an earlier group winning over a later one,
\* and an empty genre text and Afternoon/Any/"jazz" reach the default.
C3_FallbackOrder ==
    LET g == Lower(genre)
        group1 == \E kw \in {<<"w","o","r","k","o","u","t">>, <<"u","p","b","e","a","t">>, <<"e","n","e","r","g","e","t","i","c">>} : Contains(g, kw)
        group2 == \E kw \in {<<"l","o","-","f","i">>, <<"c","h","i","l","l">>, <<"i","n","d","i","e">>} : Contains(g, kw)
        group3 == \E kw \in {<<"p","o","d","c","a","s","t">>, <<"t","a","l","k">>} : Contains(g, kw)
    IN  pc = "returned" =>
           /\ Candidates = {} =>
                 /\ group1 => rec = "High Energy Workout"
                 /\ (~group1 /\ group2) => rec = "Lo-fi & Chill"
                 /\ (~group1 /\ ~group2 /\ group3) => rec = "Podcast Highlights"
                 /\ (~group1 /\ ~group2 /\ ~group3) => rec = DefaultLabel
           /\ genre = <<>> => rec = DefaultLabel
           /\ (time_slot = <<"A","f","t","e","r","n","o","o","n">> /\ mood = <<"A","n","y">> /\ genre = <<"j","a","z","z">>)
                 => rec = DefaultLabel

C3_Witness ==
    /\ pc = "returned"
    /\ Candidates = {}
    /\ Contains(Lower(genre), <<"c","h","i","l","l">>)
    /\ Contains(Lower(genre), <<"w","o","r","k","o","u","t">>)
    /\ rec = "High Energy Workout"

\* C10 as claimed: with no candidate rule, "K-pop" is decided by a
\* fallback keyword and does not reach the default branch.
C10_KpopMatchesFallbackKeyword ==
    (pc = "returned" /\ Candidates = {} /\ genre = <<"K","-","p","o","p">>) => rec # DefaultLabel

\* C10 amended: keyword matching is by substring, but "pop" is a genre
\* keyword of rules only, not a fallback keyword: with no candidate rule
\* "K-pop" reaches the default, a rule listing "Pop" matches "K-pop", and
\* "chillout" with no candidate rule matches the fallback keyword "chill".
C10_KpopReachesDefault ==
    pc = "returned" =>
       /\ (Candidates = {} /\ genre = <<"K","-","p","o","p">>) => rec = DefaultLabel
       /\ (time_slot = <<"N","i","g","h","t">> /\ mood = <<"E","x","c","i","t","e","d">> /\ genre = <<"K","-","p","o","p">>)
             => rec = "Night Out Vibes"
       /\ (Candidates = {} /\ genre = <<"c","h","i","l","l","o","u","t">>) => rec = "Lo-fi & Chill"

C10_Witness ==
    /\ pc = "returned"
    /\ time_slot = <<"A","f","t","e","r","n","o","o","n">>
    /\ mood = <<"C","a","l","m">>
    /\ genre = <<"K","-","p","o","p">>
    /\ rec = DefaultLabel

(***************************************************************************)
(* Properties of map_input_to_cluster, checked under SpecMap.              *)
(***************************************************************************)
WellFormed(feats) == feats.kind \in {"list", "dict"}

\* the overlap score of cluster i: user tokens equal to a lowercased
\* feature name of the cluster
Overlap(i) ==
    LET tokens == {Lower(time_slot), Lower(mood)}
                  \cup {Lower(Strip(Split(genre)[n])) : n \in 1..Len(Split(genre))}
        names == cluster_profiles[i].feats.items
    IN  Cardinality({t \in tokens : \E n \in 1..Len(names) : Lower(names[n]) = t})

\* C4: the returned score is the greatest overlap score, the returned
\* cluster is the first in iteration order that attains it, and the result
\* is (None, -1) exactly when the table is empty.
C4_ArgmaxEarliest ==
    pc = "returned" =>
       LET n == Len(cluster_profiles)
       IN  /\ n > 0 =>
                \E i \in 1..n :
                    /\ clust = cluster_profiles[i].k
                    /\ sc = Overlap(i)
                    /\ \A j \in 1..n : Overlap(j) <= sc
                    /\ \A j \in 1..(i - 1) : Overlap(j) < sc
           /\ (clust = None /\ sc = -1) <=> n = 0

C4_Witness ==
    /\ pc = "returned"
    /\ Len(cluster_profiles) = 2
    /\ Overlap(1) = Overlap(2)
    /\ Overlap(1) > 0
    /\ clust = cluster_profiles[1].k

\* C7: a profile value that is neither a list nor a mapping counts as an
\* empty feature set: the call does not raise, and the cluster returned is
\* never such a cluster when some cluster has positive overlap.
C7_MalformedProfileIsEmpty ==
    LET n == Len(cluster_profiles)
        malformed == {i \in 1..n : ~WellFormed(cluster_profiles[i].feats)}
        score(i) == IF i \in malformed THEN 0 ELSE Overlap(i)
    IN  (pc # "call_map" /\ malformed # {}) =>
           /\ pc = "returned"
           /\ raised = "none"
           /\ \A i \in 1..n : score(i) <= sc
           /\ (\E i \in 1..n : score(i) > 0) =>
                 \A i \in malformed : clust # cluster_profiles[i].k

(***************************************************************************)
(* Properties of a request, checked under Spec.                            *)
(***************************************************************************)
\* C5: the feature vector of a request encodes the request's own mood,
\* time slot, genre text, podcast frequency and gender.
C5_VectorEncodesRequest ==
    (pc = "done" /\ premium_model.loaded) =>
       /\ Len(fv) = 5
       /\ fv[1] = 1 <=> \E kw \in {<<"e","n","e","r","g","e","t","i","c">>, <<"u","p","b","e","a","t">>, <<"h","a","p","p","y">>, <<"p","a","r","t","y">>} :
                            Contains(Lower(mood), kw)
       /\ fv[2] = 1 <=> Contains(Lower(time_slot), <<"m","o","r","n","i","n","g">>)
       /\ fv[3] = 1 <=> Contains(Lower(genre), <<"p","o","p">>)
       /\ fv[4] = 1 <=> Contains(Lower(podcast_freq), <<"d","a","i","l","y">>)
       /\ fv[5] = 1 <=> Contains(Lower(gender), <<"f","e","m","a","l","e">>)
       /\ \A i \in 1..5 : fv[i] \in {0, 1}
       /\ (mood = <<"E","n","e","r","g","e","t","i","c">> /\ time_slot = <<"M","o","r","n","i","n","g">> /\ genre = <<"P","o","p">>
              /\ podcast_freq = <<"D","a","i","l","y">> /\ gender = <<"F","e","m","a","l","e">>)
             => fv = <<1, 1, 1, 1, 1>>

ScoreMessages == {"premium_likelihood", "model_prediction", "could_not_score"}

\* C6: with a loaded classifier the request ends with exactly one of
\* probability, class and unavailable: predict_proba, if there, is the one
\* capability called and its index-1 probability is reported; else predict
\* is called and its class reported; a missing or raising capability gives
\* unavailable, and nothing is raised.
C6_ScoringNeverPropagates ==
    (pc = "done" /\ premium_model.loaded) =>
          /\ raised = "none"
          /\ Cardinality(out \cap ScoreMessages) = 1
          /\ premium_model.proba # "absent" =>
                /\ result.called = {"predict_proba"}
                /\ premium_model.proba = "ok" =>
                      /\ result.kind = "probability"
                      /\ result.value = premium_model.row[2]
                      /\ "premium_likelihood" \in out
                /\ premium_model.proba = "raises" => result.kind = "unavailable"
          /\ premium_model.proba = "absent" =>
                /\ "predict_proba" \notin result.called
                /\ premium_model.predict = "ok" =>
                      /\ result.kind = "class"
                      /\ result.value = premium_model.cls
                      /\ result.called = {"predict"}
                      /\ "model_prediction" \in out
                /\ premium_model.predict # "ok" => result.kind = "unavailable"
          /\ result.kind = "unavailable" <=> "could_not_score" \in out

C6_Witness ==
    /\ pc = "done"
    /\ premium_model.loaded
    /\ premium_model.proba = "absent"
    /\ premium_model.predict = "absent"
    /\ result.kind = "unavailable"
    /\ "could_not_score" \in out

\* C8: with a non-empty table of list or mapping profiles no step of the
\* request raises.
C8_NoStepRaises ==
    (cluster_profiles # <<>>
        /\ \A i \in 1..Len(cluster_profiles) : WellFormed(cluster_profiles[i].feats))
    => (pc # "crashed" /\ raised = "none")

\* C9: in a request whose overlap score is 0 neither the "Input maps to
\* cluster" message nor the cluster-based rationale line is emitted.
C9_ZeroScoreNotPresented ==
    (pc \in {"rationale", "load_model", "bind", "premium", "done", "crashed"}
        /\ cluster_profiles # <<>> /\ clust # "unbound" /\ sc = 0)
    => ("maps_to_cluster" \notin out /\ "cluster_rationale" \notin out)

====
